---- MODULE Spec2Model ----
(***************************************************************************)
(* State-machine model of the EDC orchestrator (Flask application):        *)
(*   app/resources/transfer.py    TransferProcessResource (POST            *)
(*                                /orchestrator/orchestrate)               *)
(*   app/resources/status.py      bulk and single-record status queries    *)
(*   app/resources/dataaddress.py DataAddressResource                      *)
(*   app/utils/storage.py         orchestration_store + its Lock           *)
(*   app/utils/error_handling.py  response envelopes                       *)
(* Every HTTP request is served by its own worker thread.  A thread's      *)
(* position is pc[r]; a step of the model is one blocking operation of the *)
(* handler (an external HTTP call, a sleep, a lock acquisition, the body   *)
(* of a `with orchestration_store_lock:` block, a file write) together     *)
(* with the local computation that follows it up to the next blocking      *)
(* operation.                                                              *)
(***************************************************************************)
EXTENDS Integers, Sequences, FiniteSets, TLC

\* ------------------------------------------------------------------ bounds
\* number of worker threads, one HTTP request each
MaxRequests == 2
\* longest "data" list of an orchestrate request body
MaxEntries == 2
\* largest configured DATA_ADDRESS_MAX_RETRIES explored (the default is 3)
MaxRetriesConfig == 3

Threads == 1..MaxRequests

\* --------------------------------------------------------------- constants
\* Python's None, a value of its own: not the text "None" that str(None) is
None == "<None>"
EDC_API_KEY == "password"
\* the X-Api-Key header of a request: absent, the configured key, another
ApiKeys == {None, EDC_API_KEY, "wrong"}
\* the identifier ('@id') the connector assigns to the transfer process it
\* starts for data entry i of request r: every transfer gets its own
EdcTransferId(r, i) == "t" \o ToString(r) \o "." \o ToString(i)

uuid4Constant(r) == 1
\* uuid.uuid4() as called by request r: calls return distinct identifiers
uuid4(r) == r

VARIABLES
    store,              \* orchestration_store: id -> record (field -> value)
    lock,               \* orchestration_store_lock: 0 free, else the owner
    max_retries,        \* current_app.config['DATA_ADDRESS_MAX_RETRIES']
    pc,                 \* per thread: position of the handler
    handler,            \* per thread: which resource serves the request
    request,            \* per thread: the request (headers, body, url args)
    orchestration_id,   \* per thread: local of post()
    entry_idx,          \* per thread: index of the data entry being processed
    transfer_id,        \* per thread: local of post() (resource_id returned)
    data_responses,     \* per thread: local list of post()
    attempt,            \* per thread: loop variable of _retrieve_data_address
    last_exception,     \* per thread: local of _retrieve_data_address
    pending,            \* per thread: arguments of the store update under way
                        \*   and what the handler does after it
    response,           \* per thread: the response returned to the caller
    calls,              \* per thread: history, per data entry the external
                        \*   operations performed for it
    _status_cache,      \* per thread: self._status_cache of the
                        \*   OrchestrationDetailResource serving the request
    now,                \* time.time(), in seconds
    last_fetch,         \* history: per transfer identifier the last
                        \*   successful fetch of its status from the connector
    last_lookup         \* history: the last call of _get_edc_transfer_status

\* the state of the live status lookup of status.py
live_status == <<_status_cache, now, last_fetch, last_lookup>>

vars == <<store, lock, max_retries, pc, handler, request,
          orchestration_id, entry_idx, transfer_id, data_responses, attempt,
          last_exception, pending, response, calls, live_status>>

locals == <<orchestration_id, entry_idx, transfer_id, data_responses,
            attempt, last_exception>>

\* ------------------------------------------------------------- exceptions
\* an exception object: its class, str(exc), and for requests.HTTPError the
\* status code and body text of exc.response
Exc(type, text, code, body) ==
    [type |-> type, text |-> text, status_code |-> code, body |-> body]

NoException == Exc("NoneType", "None", 0, "")

\* str(exc); str(None) is the text "None"
Str(exc) == exc.text

HTTPError(code, body) == Exc("HTTPError", "HTTP error for url", code, body)
Timeout == Exc("Timeout", "Read timed out", 0, "")
ConnectionError == Exc("ConnectionError", "Connection refused", 0, "")
ValueError(text) == Exc("ValueError", text, 0, "")

\* Python truthiness of a string-or-None value
Truthy(x) == x /= None /\ x /= ""

\* dict.get(key) and dict.get(key, default)
Get(d, key) == IF key \in DOMAIN d THEN d[key] ELSE None
GetOr(d, key, default) == IF key \in DOMAIN d THEN d[key] ELSE default

\* ---------------------------------------------------------- error_handling
NoResponse == [status_code |-> 0]

create_success_response(status_code, data) ==
    [status_code |-> 200,
     json |-> [status |-> "SUCCESS", status_code |-> status_code,
               response |-> data]]

create_success_response_id(status_code, data, orch_id) ==
    [status_code |-> 200,
     json |-> [status |-> "SUCCESS", status_code |-> status_code,
               orchestration_id |-> orch_id, response |-> data]]

create_error_response(message, details, status_code) ==
    [status_code |-> status_code,
     json |-> [message |-> message, status |-> "ERROR",
               status_code |-> status_code, details |-> details]]

\* the default of create_error_response's status_code parameter
DEFAULT_ERROR_STATUS == 400

\* ------------------------------------------------------------------ helpers
\* import_time(): the current time, read after an earlier reading t of the
\* clock. Time is logical: the readings stored in one record count up.
import_time(t) == t + 1

\* --------------------------------------------------------- request inputs
\* a data entry of the request body; only its type decides validation
Entry(type, n) == [type |-> type, contractId |-> n]
\* the data lists of the requests explored: n valid entries, or n entries
\* of which the last has an unsupported type
DataLists ==
    {[i \in 1..n |-> Entry("edc-asset", i)] : n \in 0..MaxEntries} \cup
    {[i \in 1..n |-> Entry(IF i = n THEN "dataset" ELSE "edc-asset", i)] :
        n \in 1..MaxEntries}
\* a body of the "data" shape: an endpoint URL and an auth type, neither
\* connectorAddress nor a data list
DataVariantBody ==
    [type |-> "data", endpoint |-> "http://provider/data",
     auth_type |-> "bearer"]
\* JSON bodies of POST /orchestrator/orchestrate; connectorAddress None: absent
Bodies ==
    {[connectorAddress |-> a, data |-> d] :
        a \in {"http://consumer", None}, d \in DataLists}
    \cup {DataVariantBody}

\* the body of a request whose handler returns before reading it
UnreadBody == [connectorAddress |-> None, data |-> <<>>]

\* DataEntrySchema: type is required and must be "edc-asset"
DataEntrySchemaValid(entry) == entry.type = "edc-asset"

\* the fields CombinedTransferSchema declares (lines 51-57)
SchemaFields == {"service", "data", "connectorAddress"}

\* CombinedTransferSchema.load: no field the schema does not declare, data is
\* a non-empty list of valid entries and connectorAddress is present
\* (otherwise ValidationError)
SchemaValid(body) ==
    /\ DOMAIN body \subseteq SchemaFields
    /\ "data" \in DOMAIN body
    /\ Get(body, "connectorAddress") /= None
    /\ Len(body.data) > 0
    /\ \A i \in 1..Len(body.data) : DataEntrySchemaValid(body.data[i])

\* ------------------------------------------------------------------ storage
EmptyDict == [x \in {} |-> None]

\* dict.update(d): d's keys override
DictUpdate(process, d) == d @@ process

NewProcessAsRegistered(data) ==
    [status |-> "ASSET_REGISTERED", type |-> "combined",
     original_request |-> data,
     created_at |-> import_time(0), updated_at |-> import_time(0),
     transfer_id |-> None, data_entries |-> <<>>]
\* the record post() inserts (transfer.py lines 140-148)
NewProcess(data) ==
    [status |-> "INITIALIZING", type |-> "combined", original_request |-> data,
     created_at |-> import_time(0), updated_at |-> import_time(0),
     transfer_id |-> None, data_entries |-> <<>>]

_update_orchestration_status_upsert(st, orch_id, status, kwargs) ==
    IF orch_id \in DOMAIN st
    THEN [st EXCEPT ![orch_id] =
            DictUpdate(@, kwargs @@
                          [status |-> status,
                           updated_at |-> import_time(@.updated_at)])]
    ELSE (orch_id :> (kwargs @@ [status |-> status,
                                 updated_at |-> import_time(0)])) @@ st
\* the body of _update_orchestration_status's with block
_update_orchestration_status(st, orch_id, status, kwargs) ==
    IF orch_id \in DOMAIN st
    THEN [st EXCEPT ![orch_id] =
            DictUpdate(@, kwargs @@
                          [status |-> status,
                           updated_at |-> import_time(@.updated_at)])]
    ELSE st

\* ------------------------------------------------- store update under way
\* a call of _update_orchestration_status that waits for the lock: its
\* arguments, the position the handler continues at, and the response it
\* returns when that position is the end of the handler
Update(status, kwargs, next, resp) ==
    [status |-> status, kwargs |-> kwargs, next |-> next, resp |-> resp]
NoPending == Update("", EmptyDict, "", NoResponse)

PostExceptNoDetail(exc) ==
    Update("FAILED", EmptyDict, "done",
           create_error_response(Str(exc), None, 500))
\* post()'s `except Exception` (lines 248-251)
PostExcept(exc) ==
    Update("FAILED", [error |-> Str(exc)], "done",
           create_error_response(Str(exc), None, 500))

\* ------------------------------------------------------- external services
\* what the connector answers to the transfer-initiation POST, as seen by
\* _handle_edc_request: a JSON body with or without '@id', or an exception
\* raised by make_request
InitOk(id) == [ok |-> TRUE, id |-> id, exc |-> NoException]
InitFail(exc) == [ok |-> FALSE, id |-> None, exc |-> exc]
InitOutcomes(r, i) ==
    {InitOk(t) : t \in {EdcTransferId(r, i), None}} \cup
    {InitFail(e) : e \in {HTTPError(409, "conflict"),
                          HTTPError(500, "internal error"),
                          Timeout, ConnectionError}}

\* what the connector answers to an EDR poll: the data address JSON (with or
\* without an authorization credential) or an exception
EdrPayloads ==
    {[authorization |-> "tok", endpoint |-> "http://data"],
     [endpoint |-> "http://data"]}
PollOk(edr) == [ok |-> TRUE, edr |-> edr, exc |-> NoException]
PollFail(exc) == [ok |-> FALSE, edr |-> EmptyDict, exc |-> exc]
PollOutcomes ==
    {PollOk(e) : e \in EdrPayloads} \cup
    {PollFail(e) : e \in {HTTPError(404, "not found"), Timeout}}

\* history: the external operations performed for one data entry
NoCalls ==
    [entry |-> 0, init |-> 0, poll |-> 0, sleep |-> 0, download |-> 0, save |-> 0,
     poll_failed |-> 0, downloaded |-> FALSE, saved |-> FALSE,
     init_outcome |-> InitFail(NoException),
     last_poll |-> PollFail(NoException)]

\* --------------------------------------------------- live status lookup
\* config.py line 23, status.py line 76: the default CACHE_TTL, in seconds
CACHE_TTL == 5
\* the latest clock reading explored
MaxTime == 6
\* the largest number of calls of _get_edc_transfer_status explored
MaxLookups == 3

\* the transfer identifiers looked up
LiveTransferIds == {EdcTransferId(1, 1), EdcTransferId(1, 2)}
\* what the connector answers to GET .../transferprocesses/{id}: 200 with
\* the transfer process (response.json(), written here as the state it
\* reports, which moves on between calls), or another status / an exception
\* of make_request
LiveOutcomes ==
    {[ok |-> TRUE, data |-> st] : st \in {"STARTED", "COMPLETED"}}
    \cup {[ok |-> FALSE, data |-> None]}

\* a cache entry (cached_time, cached_data); NoFetch: no entry
CacheEntry(time, data) == [time |-> time, data |-> data]
NoFetch == CacheEntry(-1, None)
NoLookup == [n |-> 0]

\* the instance state when the resource is constructed (status.py line 75)
EmptyCache == [t \in {} |-> NoFetch]

\* _get_edc_transfer_status (lines 145-178) with self._status_cache = cache,
\* time.time() = current_time and the connector answering o: the cache
\* afterwards, the value returned and whether the connector was asked
\* lines 148-150
CacheHit(cache, tid, current_time) ==
    /\ tid \in DOMAIN cache
    /\ current_time - cache[tid].time < CACHE_TTL
_get_edc_transfer_status(cache, tid, current_time, o) ==
    IF CacheHit(cache, tid, current_time)
    THEN [cache |-> cache, result |-> cache[tid].data, contacted |-> FALSE]
    ELSE IF o.ok
    THEN [cache |-> (tid :> CacheEntry(current_time, o.data)) @@ cache,
          result |-> o.data, contacted |-> TRUE]
    ELSE [cache |-> cache, result |-> None, contacted |-> TRUE]

InitLiveStatus ==
    /\ _status_cache = [r \in Threads |-> EmptyCache]
    /\ now = 0
    /\ last_fetch = [t \in LiveTransferIds |-> NoFetch]
    /\ last_lookup = NoLookup

\* ---------------------------------------------------------------- initial
Init ==
    /\ store = EmptyDict
    /\ lock = 0
    /\ max_retries \in 0..MaxRetriesConfig
    /\ pc = [r \in Threads |-> "idle"]
    /\ handler = [r \in Threads |-> None]
    /\ request = [r \in Threads |-> EmptyDict]
    /\ orchestration_id = [r \in Threads |-> 0]
    /\ entry_idx = [r \in Threads |-> 0]
    /\ transfer_id = [r \in Threads |-> None]
    /\ data_responses = [r \in Threads |-> <<>>]
    /\ attempt = [r \in Threads |-> 0]
    /\ last_exception = [r \in Threads |-> NoException]
    /\ pending = [r \in Threads |-> NoPending]
    /\ response = [r \in Threads |-> NoResponse]
    /\ calls = [r \in Threads |-> [i \in 1..MaxEntries |-> NoCalls]]
    /\ InitLiveStatus

\* requests are numbered in their order of arrival
Arrives(r) == pc[r] = "idle" /\ \A q \in 1..(r - 1) : pc[q] /= "idle"

\* the handler returns resp; its frame's locals are gone
Return(r, resp) ==
    /\ pc' = [pc EXCEPT ![r] = "done"]
    /\ response' = [response EXCEPT ![r] = resp]

ResetLocals(r) ==
    /\ entry_idx' = [entry_idx EXCEPT ![r] = 0]
    /\ transfer_id' = [transfer_id EXCEPT ![r] = None]
    /\ data_responses' = [data_responses EXCEPT ![r] = <<>>]
    /\ attempt' = [attempt EXCEPT ![r] = 0]
    /\ last_exception' = [last_exception EXCEPT ![r] = NoException]

\* the handler calls _update_orchestration_status(u...) and waits for the lock
CallUpdate(r, u) ==
    /\ pc' = [pc EXCEPT ![r] = "update_lock"]
    /\ pending' = [pending EXCEPT ![r] = u]

\* ------------------------------------------- TransferProcessResource.post
\* lines 126-137: API key check, uuid4(), schema.load
MissingKeyResponse ==
    create_error_response("Missing API key", 401, DEFAULT_ERROR_STATUS)
InvalidKeyResponse ==
    create_error_response("Invalid API key", 403, DEFAULT_ERROR_STATUS)
ValidationErrorResponse ==
    create_error_response("Invalid request format", "messages", 400)

\* request.get_json() raises BadRequest when the body is not JSON; post()'s
\* `except Exception` handles it
BadRequest == Exc("BadRequest", "Failed to decode JSON object", 400, "")

PostRequest(r) ==
    /\ Arrives(r)
    /\ \E key \in ApiKeys, parseable \in BOOLEAN,
          body \in Bodies \cup {UnreadBody} :
        \* request.get_json() is evaluated after the key check only
        /\ IF Truthy(key) /\ key = EDC_API_KEY
           THEN IF parseable THEN body \in Bodies ELSE body = UnreadBody
           ELSE parseable /\ body = UnreadBody
        /\ request' = [request EXCEPT ![r] =
               [api_key |-> key, parseable |-> parseable, json |-> body]]
        /\ handler' = [handler EXCEPT ![r] = "orchestrate"]
        /\ IF ~Truthy(key)
           THEN /\ Return(r, MissingKeyResponse)
                /\ UNCHANGED <<orchestration_id, pending>>
           ELSE IF key /= EDC_API_KEY
           THEN /\ Return(r, InvalidKeyResponse)
                /\ UNCHANGED <<orchestration_id, pending>>
           ELSE /\ orchestration_id' =
                       [orchestration_id EXCEPT ![r] = uuid4(r)]
                /\ IF ~parseable
                   THEN /\ CallUpdate(r, PostExcept(BadRequest))
                        /\ UNCHANGED response
                   ELSE IF SchemaValid(body)
                   THEN /\ pc' = [pc EXCEPT ![r] = "create_lock"]
                        /\ UNCHANGED <<response, pending>>
                   ELSE /\ Return(r, ValidationErrorResponse)
                        /\ UNCHANGED pending
    /\ UNCHANGED <<store, lock, max_retries, live_status, entry_idx, transfer_id,
                   data_responses, attempt, last_exception, calls>>

\* line 139: with orchestration_store_lock
CreateAcquire(r) ==
    /\ pc[r] = "create_lock"
    /\ lock = 0
    /\ lock' = r
    /\ pc' = [pc EXCEPT ![r] = "create_cs"]
    /\ UNCHANGED <<store, max_retries, live_status, handler, request, locals,
                   pending, response, calls>>

CreateRecordFreshStore(r) ==
    /\ pc[r] = "create_cs"
    /\ store' = (orchestration_id[r] :> NewProcess(request[r].json))
    /\ lock' = 0
    /\ pc' = [pc EXCEPT ![r] = "initiate_call"]
    /\ entry_idx' = [entry_idx EXCEPT ![r] = 1]
    /\ data_responses' = [data_responses EXCEPT ![r] = <<>>]
    /\ UNCHANGED <<max_retries, live_status, handler, request, orchestration_id,
                   transfer_id, attempt, last_exception, pending, response,
                   calls>>
\* lines 140-153: the record is inserted, the lock released, the loop over
\* the data entries begins with the first entry
CreateRecord(r) ==
    /\ pc[r] = "create_cs"
    /\ store' = (orchestration_id[r] :> NewProcess(request[r].json)) @@ store
    /\ lock' = 0
    /\ pc' = [pc EXCEPT ![r] = "initiate_call"]
    /\ entry_idx' = [entry_idx EXCEPT ![r] = 1]
    /\ data_responses' = [data_responses EXCEPT ![r] = <<>>]
    /\ UNCHANGED <<max_retries, live_status, handler, request, orchestration_id,
                   transfer_id, attempt, last_exception, pending, response,
                   calls>>

\* history bookkeeping: the entry being processed gets field f set to v
Note(r, f, v) == [calls[r] EXCEPT ![entry_idx[r]][f] = v]
Count(r, f) == calls[r][entry_idx[r]][f] + 1

\* ------------------------------------------------- _handle_edc_request
\* lines 303-310: requests.HTTPError is caught, recorded and turned into an
\* error response carrying the connector's status code; post() (line 164)
\* returns it (raise_for_status raises for 4xx and 5xx only, so the code is
\* always >= 400)
HandleHTTPErrorAs500(exc) ==
    [status |-> "FAILED", kwargs |-> [error |-> exc.body], next |-> "done",
     resp |-> create_error_response("EDC API communication failed",
                                    exc.body, 500)]
HandleHTTPError(exc) ==
    Update("FAILED", [error |-> exc.body], "done",
           create_error_response("EDC API communication failed", exc.body,
                                 exc.status_code))

HandleSuccessStoresTransferId(resource_id, success_status) ==
    Update(success_status,
           [resource_id |-> resource_id, transfer_id |-> resource_id,
            edc_response |-> [k \in {"@id"} |-> resource_id]],
           "retrieve", NoResponse)
\* lines 287-301 and post() lines 164-176: the identifier is recorded and
\* post() goes on to _retrieve_data_address
HandleSuccess(resource_id, success_status) ==
    Update(success_status,
           [resource_id |-> resource_id,
            edc_response |-> [k \in {"@id"} |-> resource_id]],
           "retrieve", NoResponse)

HandleEdcOutcomeAcceptMissingId(o) ==
    IF o.ok
    THEN HandleSuccess(o.id, "ASSET_REGISTERED")
    ELSE IF o.exc.type = "HTTPError"
         THEN HandleHTTPError(o.exc)
         ELSE PostExcept(o.exc)
\* what _handle_edc_request and post() do with the outcome of the POST
HandleEdcOutcome(o) ==
    IF o.ok
    THEN IF Truthy(o.id)
         THEN HandleSuccess(o.id, "ASSET_REGISTERED")
         ELSE PostExcept(ValueError("Invalid EDC response: missing resource ID"))
    ELSE IF o.exc.type = "HTTPError"
         THEN HandleHTTPError(o.exc)
         ELSE PostExcept(o.exc)

\* lines 156-162 / 272-278: the transfer-initiation call returns
InitiateTransfer(r) ==
    /\ pc[r] = "initiate_call"
    /\ \E o \in InitOutcomes(r, entry_idx[r]) :
        /\ calls' = [calls EXCEPT ![r] =
                [Note(r, "init", Count(r, "init")) EXCEPT
                    ![entry_idx[r]].init_outcome = o,
                    ![entry_idx[r]].entry =
                        request[r].json.data[entry_idx[r]].contractId]]
        /\ transfer_id' = [transfer_id EXCEPT ![r] =
                IF o.ok /\ Truthy(o.id) THEN o.id ELSE @]
        /\ CallUpdate(r, HandleEdcOutcome(o))
    /\ UNCHANGED <<store, lock, max_retries, live_status, handler, request,
                   orchestration_id, entry_idx, data_responses, attempt,
                   last_exception, response>>

\* ----------------------------------------------- _retrieve_data_address
\* line 316, `for attempt in range(self.data_address_max_retries)`, with
\* attempt = a: where the thread blocks next
ShouldSleepEveryAttempt(a) == a >= 0
ShouldSleep(a) == a > 0
LoopPcAtLeastOnce(a) ==
    IF a < max_retries \/ a = 0
    THEN IF ShouldSleep(a) THEN "sleep" ELSE "poll_call"
    ELSE "update_lock"
LoopPcOneMore(a) ==
    IF a <= max_retries
    THEN IF ShouldSleep(a) THEN "sleep" ELSE "poll_call"
    ELSE "update_lock"
LoopPc(a) ==
    IF a < max_retries
    THEN IF ShouldSleep(a) THEN "sleep" ELSE "poll_call"
    ELSE "update_lock"
LoopPendingWithResponses(a, exc) ==
    IF a < max_retries
    THEN NoPending
    ELSE Update("FAILED", [error |-> Str(exc), data_responses |-> <<>>],
                "done",
                create_error_response("Data address retrieval failed",
                                      Str(exc), 500))
\* lines 345-350 (loop exhausted) and post() line 178
LoopPending(a, exc) ==
    IF a < max_retries
    THEN NoPending
    ELSE Update("FAILED", [error |-> Str(exc)], "done",
                create_error_response("Data address retrieval failed",
                                      Str(exc), 500))

\* line 320: time.sleep(self.data_address_delay)
Sleep(r) ==
    /\ pc[r] = "sleep"
    /\ pc' = [pc EXCEPT ![r] = "poll_call"]
    /\ calls' = [calls EXCEPT ![r] = Note(r, "sleep", Count(r, "sleep"))]
    /\ UNCHANGED <<store, lock, max_retries, live_status, handler, request,
                   locals, pending, response>>

\* post() lines 182-203 after a successful retrieval: the data address must
\* carry an authorization credential, otherwise post() returns an error
MissingAuthResponse ==
    create_error_response("Invalid EDR data", "Missing authorization token",
                          500)
AfterRetrievalNoAuthCheck(edr) == "download_call"
AfterRetrieval(edr) ==
    IF Truthy(Get(edr, "authorization")) THEN "download_call" ELSE "done"

\* lines 330-339: the data address is recorded
PollSuccess(edr) ==
    Update("DATA_ADDRESS_RETRIEVED", [data_address |-> edr],
           AfterRetrieval(edr),
           IF AfterRetrieval(edr) = "done" THEN MissingAuthResponse
           ELSE NoResponse)

RememberFirst(previous, exc) ==
    IF previous = NoException THEN exc ELSE previous
\* the exception _retrieve_data_address remembers after a failed attempt
\* (line 343)
Remember(previous, exc) == exc

\* lines 322-343: one poll of the EDR endpoint returns
PollDataAddress(r) ==
    /\ pc[r] = "poll_call"
    /\ \E o \in PollOutcomes :
        /\ calls' = [calls EXCEPT ![r] =
                [Note(r, "poll", Count(r, "poll")) EXCEPT
                    ![entry_idx[r]].last_poll = o,
                    ![entry_idx[r]].poll_failed =
                        IF o.ok THEN @ ELSE @ + 1]]
        /\ IF o.ok
           THEN /\ CallUpdate(r, PollSuccess(o.edr))
                /\ attempt' = [attempt EXCEPT ![r] = 0]
                /\ last_exception' =
                       [last_exception EXCEPT ![r] = NoException]
           ELSE /\ attempt' = [attempt EXCEPT ![r] = @ + 1]
                /\ last_exception' = [last_exception EXCEPT ![r] =
                       Remember(@, o.exc)]
                /\ pc' = [pc EXCEPT ![r] = LoopPc(attempt[r] + 1)]
                /\ pending' = [pending EXCEPT ![r] =
                       LoopPending(attempt[r] + 1,
                                   Remember(last_exception[r], o.exc))]
    /\ UNCHANGED <<store, lock, max_retries, live_status, handler, request,
                   orchestration_id, entry_idx, transfer_id, data_responses,
                   response>>

\* ------------------------------------------ _update_orchestration_status
UpdateAcquireNoWait(r) ==
    /\ pc[r] = "update_lock"
    /\ lock' = r
    /\ pc' = [pc EXCEPT ![r] = "update_cs"]
    /\ UNCHANGED <<store, max_retries, live_status, handler, request, locals,
                   pending, response, calls>>
\* line 104: with orchestration_store_lock
UpdateAcquire(r) ==
    /\ pc[r] = "update_lock"
    /\ lock = 0
    /\ lock' = r
    /\ pc' = [pc EXCEPT ![r] = "update_cs"]
    /\ UNCHANGED <<store, max_retries, live_status, handler, request, locals,
                   pending, response, calls>>

\* lines 105-111: the record is updated and the lock released; the handler
\* goes on: it returns, or downloads, or enters _retrieve_data_address
UpdateApply(r) ==
    /\ pc[r] = "update_cs"
    /\ store' = _update_orchestration_status(
                    store, orchestration_id[r], pending[r].status,
                    pending[r].kwargs)
    /\ lock' = 0
    /\ IF pending[r].next = "retrieve"
       THEN /\ pc' = [pc EXCEPT ![r] = LoopPc(0)]
            /\ pending' = [pending EXCEPT ![r] = LoopPending(0, NoException)]
            /\ attempt' = [attempt EXCEPT ![r] = 0]
            /\ last_exception' = [last_exception EXCEPT ![r] = NoException]
            /\ UNCHANGED <<response, entry_idx, transfer_id, data_responses>>
       ELSE IF pending[r].next = "done"
       THEN /\ Return(r, pending[r].resp)
            /\ pending' = [pending EXCEPT ![r] = NoPending]
            /\ ResetLocals(r)
       ELSE /\ pc' = [pc EXCEPT ![r] = pending[r].next]
            /\ pending' = [pending EXCEPT ![r] = NoPending]
            /\ UNCHANGED <<response, entry_idx, transfer_id, data_responses,
                           attempt, last_exception>>
    /\ UNCHANGED <<max_retries, live_status, handler, request, orchestration_id,
                   calls>>

\* ----------------------------------------------------------- _download_data
\* what the provider's data plane answers: content, or an exception
DownloadFailures == {Timeout, HTTPError(403, "forbidden")}

\* lines 404-410: every exception becomes an error response, which post()
\* returns (line 202)
DownloadFailedResponse(exc) ==
    create_error_response("Data download failed", Str(exc), 500)

\* lines 198-203 / 381-402: the download call returns
DownloadData(r) ==
    /\ pc[r] = "download_call"
    /\ \/ /\ pc' = [pc EXCEPT ![r] = "save_file"]
          /\ calls' = [calls EXCEPT ![r] =
                 [Note(r, "download", Count(r, "download"))
                     EXCEPT ![entry_idx[r]].downloaded = TRUE]]
          /\ UNCHANGED <<response, locals>>
       \/ /\ \E exc \in DownloadFailures :
                Return(r, DownloadFailedResponse(exc))
          /\ calls' = [calls EXCEPT ![r] =
                 Note(r, "download", Count(r, "download"))]
          /\ ResetLocals(r)
          /\ UNCHANGED orchestration_id
    /\ UNCHANGED <<store, lock, max_retries, live_status, handler, request,
                   pending>>

\* ------------------------------------------------------ _save_data_content
\* the path of the file written for a transfer
FilePath(id) == <<"file", id>>

\* lines 217-221
DataResponse(id) ==
    [transfer_id |-> id, storage_path |-> FilePath(id), status |-> "SAVED"]

\* lines 222-227: IOError while saving
StorageFailedResponse ==
    create_error_response("Data storage failed for transfer", None, 500)

\* lines 229-243: after the last entry
Completed(orch_id, drs) ==
    Update("COMPLETED", [data_responses |-> drs], "done",
           create_success_response_id(
               200,
               [status |-> "SUCCESS", status_code |-> 200,
                data_responses |-> drs],
               orch_id))

HasNextEntrySkipLast(r, i) == i + 1 < Len(request[r].json.data)
\* line 153, `for entry in data['data']`: is there an entry after entry i
HasNextEntry(r, i) == i < Len(request[r].json.data)

\* lines 212-227 and the loop of line 153: after _save_data_content, post()
\* returns an error (IOError), goes on with the next entry, or completes
AfterSaveSwallowError(ok, has_next) ==
    IF has_next THEN "next_entry"
    ELSE IF ok THEN "complete" ELSE "return_error"
AfterSave(ok, has_next) ==
    IF ~ok THEN "return_error"
    ELSE IF has_next THEN "next_entry" ELSE "complete"

\* lines 211-227: the file is written or IOError is raised
SaveDataContent(r) ==
    /\ pc[r] = "save_file"
    /\ \E ok \in BOOLEAN :
        LET step == AfterSave(ok, HasNextEntry(r, entry_idx[r]))
            drs == IF ok
                   THEN Append(data_responses[r], DataResponse(transfer_id[r]))
                   ELSE data_responses[r]
        IN  /\ calls' = [calls EXCEPT ![r] =
                    [Note(r, "save", Count(r, "save"))
                        EXCEPT ![entry_idx[r]].saved = ok]]
            /\ IF step = "return_error"
               THEN /\ Return(r, StorageFailedResponse)
                    /\ ResetLocals(r)
                    /\ UNCHANGED pending
               ELSE IF step = "next_entry"
               THEN /\ entry_idx' = [entry_idx EXCEPT ![r] = @ + 1]
                    /\ data_responses' = [data_responses EXCEPT ![r] = drs]
                    /\ pc' = [pc EXCEPT ![r] = "initiate_call"]
                    /\ UNCHANGED <<pending, response, transfer_id, attempt,
                                   last_exception>>
               ELSE /\ CallUpdate(r, Completed(orchestration_id[r], drs))
                    /\ data_responses' = [data_responses EXCEPT ![r] = drs]
                    /\ UNCHANGED <<entry_idx, response, transfer_id, attempt,
                                   last_exception>>
    /\ UNCHANGED <<store, lock, max_retries, live_status, handler, request,
                   orchestration_id>>

\* ------------------------------------------------ status.py: status queries
get_detailed_orchestration_data_stamped(orch_id, process) ==
    [orchestration_id |-> orch_id,
     process_status |-> process.status,
     created_at |-> process.created_at,
     updated_at |-> process.updated_at,
     retrieved_at |-> Cardinality({q \in Threads : pc[q] = "done"}),
     properties |-> GetOr(process, "properties", EmptyDict)]
\* get_detailed_orchestration_data (lines 22-41)
get_detailed_orchestration_data(orch_id, process) ==
    [orchestration_id |-> orch_id,
     process_status |-> process.status,
     created_at |-> process.created_at,
     updated_at |-> process.updated_at,
     properties |-> GetOr(process, "properties", EmptyDict)]

\* OrchestrationStatusResource.get, line 51: the request waits for the lock
StatusAllRequest(r) ==
    /\ Arrives(r)
    /\ handler' = [handler EXCEPT ![r] = "status_all"]
    /\ pc' = [pc EXCEPT ![r] = "status_all_lock"]
    /\ UNCHANGED <<store, lock, max_retries, live_status, request, locals, pending,
                   response, calls>>

StatusAllAcquire(r) ==
    /\ pc[r] = "status_all_lock"
    /\ lock = 0
    /\ lock' = r
    /\ pc' = [pc EXCEPT ![r] = "status_all_cs"]
    /\ UNCHANGED <<store, max_retries, live_status, handler, request, locals, pending,
                   response, calls>>

\* lines 53-59: every record is rendered; returning leaves the with block
StatusAllRead(r) ==
    /\ pc[r] = "status_all_cs"
    /\ Return(r, create_success_response(200,
            [orchestration_processes |->
                [id \in DOMAIN store |->
                    get_detailed_orchestration_data(id, store[id])]]))
    /\ lock' = 0
    /\ UNCHANGED <<store, max_retries, live_status, handler, request, locals, pending,
                   calls>>

\* OrchestrationDetailResource.get: the identifiers and clientIp arguments
\* of the requests explored
DetailIds == Threads
ClientIps == {"10.0.0.1", None}

\* lines 126-132: a missing clientIp makes parse_args abort inside the try
DetailExceptResponse ==
    create_error_response("Error retrieving orchestration status",
                          "clientIp: Client IP address must be provided", 500)
DetailNotFoundResponse ==
    create_error_response("Orchestration process not found",
                          "Process does not exist", 404)

\* lines 88-97
StatusDetailRequest(r) ==
    /\ Arrives(r)
    /\ handler' = [handler EXCEPT ![r] = "status_detail"]
    /\ \E id \in DetailIds, ip \in ClientIps :
        /\ request' = [request EXCEPT ![r] =
                           [orchestration_id |-> id, clientIp |-> ip]]
        /\ IF ip = None
           THEN Return(r, DetailExceptResponse)
           ELSE /\ pc' = [pc EXCEPT ![r] = "status_detail_lock"]
                /\ UNCHANGED response
    /\ UNCHANGED <<store, lock, max_retries, live_status, locals, pending, calls>>

StatusDetailAcquire(r) ==
    /\ pc[r] = "status_detail_lock"
    /\ lock = 0
    /\ lock' = r
    /\ pc' = [pc EXCEPT ![r] = "status_detail_cs"]
    /\ UNCHANGED <<store, max_retries, live_status, handler, request, locals, pending,
                   response, calls>>

WantsLiveStatusAlways(process, response_data) == TRUE
\* lines 111-114: whether the live status of the transfer is fetched from
\* the connector
WantsLiveStatus(process, response_data) ==
    Get(response_data, "type") = "service"
        /\ Truthy(Get(process, "transfer_id"))

\* lines 98-124, inside the with block: not found, or the record's detail
\* (line 120 passes the payload as create_success_response's first
\* positional parameter, status_code; data keeps its default None);
\* when the live status is wanted the connector is called with the lock held
StatusDetailRead(r) ==
    /\ pc[r] = "status_detail_cs"
    /\ LET orch_id == request[r].orchestration_id IN
        IF orch_id \notin DOMAIN store
        THEN /\ Return(r, DetailNotFoundResponse)
             /\ lock' = 0
        ELSE LET process == store[orch_id]
                 response_data ==
                     get_detailed_orchestration_data(orch_id, process)
             IN  IF WantsLiveStatus(process, response_data)
                 THEN /\ pc' = [pc EXCEPT ![r] = "status_edc_call"]
                      /\ UNCHANGED <<lock, response>>
                 ELSE /\ Return(r, create_success_response(
                            [orchestration_processes |->
                                [id \in {orch_id} |-> response_data]],
                            None))
                      /\ lock' = 0
    /\ UNCHANGED <<store, max_retries, live_status, handler, request, locals, pending,
                   calls>>

\* ---------------------------------------- dataaddress.py: DataAddressResource
\* the transfer identifiers of the lookups explored
LookupIds == {EdcTransferId(1, 1), "unknown"}

\* lines 36-45
DataAddressRequest(r) ==
    /\ Arrives(r)
    /\ handler' = [handler EXCEPT ![r] = "data_address"]
    /\ \E key \in ApiKeys, id \in LookupIds :
        /\ request' = [request EXCEPT ![r] =
                           [api_key |-> key, transfer_id |-> id]]
        /\ IF ~Truthy(key)
           THEN Return(r, create_error_response("No API key provided", None,
                                                401))
           ELSE IF key /= EDC_API_KEY
           THEN Return(r, create_error_response("Invalid API key", None, 403))
           ELSE /\ pc' = [pc EXCEPT ![r] = "data_address_call"]
                /\ UNCHANGED response
    /\ UNCHANGED <<store, lock, max_retries, live_status, locals, pending, calls>>

\* lines 61-66 and 100-102: the connector's answer to the lookup
DataAddressCall(r) ==
    /\ pc[r] = "data_address_call"
    /\ \/ \E exc \in {Timeout, HTTPError(404, "not found")} :
            Return(r, create_error_response(Str(exc), None, 500))
       \/ /\ pc' = [pc EXCEPT ![r] = "data_address_lock"]
          /\ UNCHANGED response
    /\ UNCHANGED <<store, lock, max_retries, live_status, handler, request, locals,
                   pending, calls>>

DataAddressAcquire(r) ==
    /\ pc[r] = "data_address_lock"
    /\ lock = 0
    /\ lock' = r
    /\ pc' = [pc EXCEPT ![r] = "data_address_cs"]
    /\ UNCHANGED <<store, max_retries, live_status, handler, request, locals, pending,
                   response, calls>>

MatchingResourceId(st, id) ==
    {o \in DOMAIN st : Get(st[o], "resource_id") = id}
\* lines 74-75: the records whose transfer_id is the one looked up
Matching(st, id) == {o \in DOMAIN st : Get(st[o], "transfer_id") = id}

\* lines 73-82: the first record whose transfer_id matches gets status
\* DATA_ADDRESS_RETRIEVED (iteration follows insertion order; any matching
\* record may be the first)
MarkRetrieved(st, o) ==
    [st EXCEPT ![o] = DictUpdate(@,
        [status |-> "DATA_ADDRESS_RETRIEVED",
         updated_at |-> import_time(@.updated_at)])]

\* lines 72-92 (line 92 passes the result as create_success_response's first
\* positional parameter, status_code)
DataAddressUpdate(r) ==
    /\ pc[r] = "data_address_cs"
    /\ LET id == request[r].transfer_id
           result == [transfer_id |-> id, data_address |-> "edr"]
       IN  IF Matching(store, id) = {}
           THEN /\ UNCHANGED store
                /\ Return(r, create_success_response(result, None))
           ELSE \E o \in Matching(store, id) :
                /\ store' = MarkRetrieved(store, o)
                /\ Return(r, create_success_response(
                        [orchestration_id |-> o] @@ result, None))
    /\ lock' = 0
    /\ UNCHANGED <<max_retries, live_status, handler, request, locals, pending, calls>>

\* ------------------------------------------------------------ specification
Next ==
    \E r \in Threads :
        \/ PostRequest(r)
        \/ CreateAcquire(r)
        \/ CreateRecord(r)
        \/ InitiateTransfer(r)
        \/ UpdateAcquire(r)
        \/ UpdateApply(r)
        \/ Sleep(r)
        \/ PollDataAddress(r)
        \/ DownloadData(r)
        \/ SaveDataContent(r)
        \/ StatusAllRequest(r)
        \/ StatusAllAcquire(r)
        \/ StatusAllRead(r)
        \/ StatusDetailRequest(r)
        \/ StatusDetailAcquire(r)
        \/ StatusDetailRead(r)
        \/ DataAddressRequest(r)
        \/ DataAddressCall(r)
        \/ DataAddressAcquire(r)
        \/ DataAddressUpdate(r)

Spec == Init /\ [][Next]_vars

\* a step of the handler that serves the request of thread r, once the
\* request has arrived
Step(r) ==
    \/ CreateAcquire(r)
    \/ CreateRecord(r)
    \/ InitiateTransfer(r)
    \/ UpdateAcquire(r)
    \/ UpdateApply(r)
    \/ Sleep(r)
    \/ PollDataAddress(r)
    \/ DownloadData(r)
    \/ SaveDataContent(r)
    \/ StatusAllAcquire(r)
    \/ StatusAllRead(r)
    \/ StatusDetailAcquire(r)
    \/ StatusDetailRead(r)
    \/ DataAddressCall(r)
    \/ DataAddressAcquire(r)
    \/ DataAddressUpdate(r)

\* every worker thread keeps running: an external call returns or raises
\* within its timeout (helpers.py line 30, transfer.py line 277), a sleep
\* ends, a file write ends, and a free lock is acquired
FairSpec == Spec /\ \A r \in Threads : WF_vars(Step(r))

\* ------------------------------------- the live status lookup on its own
\* OrchestrationDetailResource.__init__ (lines 72-78): the resource object
\* that serves request r is constructed, with an empty cache of its own, and
\* get() is at the call of line 115
DetailResourceInit(r) ==
    /\ Arrives(r)
    /\ handler' = [handler EXCEPT ![r] = "status_detail"]
    /\ pc' = [pc EXCEPT ![r] = "status_edc_call"]
    /\ _status_cache' = [_status_cache EXCEPT ![r] = EmptyCache]
    /\ UNCHANGED <<store, lock, max_retries, request, locals, pending,
                   response, calls, now, last_fetch, last_lookup>>

\* lines 145-178: the resource object of request r looks up the status of a
\* transfer
GetEdcTransferStatus(r) ==
    /\ pc[r] = "status_edc_call"
    /\ last_lookup.n < MaxLookups
    /\ \E tid \in LiveTransferIds, o \in LiveOutcomes :
        LET res == _get_edc_transfer_status(_status_cache[r], tid, now, o)
            ok == res.contacted /\ o.ok
        IN  /\ _status_cache' = [_status_cache EXCEPT ![r] = res.cache]
            /\ last_fetch' = IF ok
                             THEN [last_fetch EXCEPT ![tid] =
                                      CacheEntry(now, o.data)]
                             ELSE last_fetch
            /\ last_lookup' =
                   [n |-> last_lookup.n + 1, by |-> r, tid |-> tid,
                    time |-> now, contacted |-> res.contacted, ok |-> ok,
                    result |-> res.result, previous |-> last_fetch[tid],
                    cached_before |-> GetOr(_status_cache[r], tid, NoFetch)]
    /\ UNCHANGED <<store, lock, max_retries, pc, handler, request, locals,
                   pending, response, calls, now>>

\* time.time() advances
TimePasses ==
    /\ now < MaxTime
    /\ now' = now + 1
    /\ UNCHANGED <<store, lock, max_retries, pc, handler, request, locals,
                   pending, response, calls, _status_cache, last_fetch,
                   last_lookup>>

NextCache ==
    \/ \E r \in Threads :
           \/ DetailResourceInit(r)
           \/ GetEdcTransferStatus(r)
    \/ TimePasses

\* the lookup does not read DATA_ADDRESS_MAX_RETRIES: one configuration
InitCache ==
    /\ Init
    /\ max_retries = MaxRetriesConfig

SpecCache == InitCache /\ [][NextCache]_vars

\* ------------------------------------- status queries over a given store
\* the request that left the record of identifier id in the store
SampleBody ==
    [connectorAddress |-> "http://consumer", data |-> <<Entry("edc-asset", 1)>>]

\* the contents a record goes through: inserted by post(), then updated by
\* _handle_edc_request, _retrieve_data_address and post()
RecordStages(id) ==
    LET s0 == (id :> NewProcess(SampleBody))
        apply(st, u) == _update_orchestration_status(st, id, u.status, u.kwargs)
        s1 == apply(s0, HandleSuccess(EdcTransferId(id, 1), "ASSET_REGISTERED"))
        s2 == apply(s1, PollSuccess([authorization |-> "tok",
                                     endpoint |-> "http://data"]))
        s3 == apply(s2, Completed(id, <<DataResponse(EdcTransferId(id, 1))>>))
        f1 == apply(s0, HandleHTTPError(HTTPError(409, "conflict")))
        f2 == apply(s1, PostExcept(Timeout))
    IN  {s0[id], s1[id], s2[id], s3[id], f1[id], f2[id]}

\* the stores the queries find: any set of identifiers, each record at any
\* stage of its workflow
StoreSnapshots ==
    UNION {[ids -> UNION {RecordStages(id) : id \in ids}] :
              ids \in SUBSET DetailIds}

\* status queries arrive while no workflow takes a step
InitStatus ==
    /\ store \in {st \in StoreSnapshots :
                     \A id \in DOMAIN st : st[id] \in RecordStages(id)}
    /\ lock = 0
    /\ max_retries = MaxRetriesConfig
    /\ pc = [r \in Threads |-> "idle"]
    /\ handler = [r \in Threads |-> None]
    /\ request = [r \in Threads |-> EmptyDict]
    /\ orchestration_id = [r \in Threads |-> 0]
    /\ entry_idx = [r \in Threads |-> 0]
    /\ transfer_id = [r \in Threads |-> None]
    /\ data_responses = [r \in Threads |-> <<>>]
    /\ attempt = [r \in Threads |-> 0]
    /\ last_exception = [r \in Threads |-> NoException]
    /\ pending = [r \in Threads |-> NoPending]
    /\ response = [r \in Threads |-> NoResponse]
    /\ calls = [r \in Threads |-> [i \in 1..MaxEntries |-> NoCalls]]
    /\ InitLiveStatus

NextStatus ==
    \E r \in Threads :
        \/ StatusAllRequest(r)
        \/ StatusAllAcquire(r)
        \/ StatusAllRead(r)
        \/ StatusDetailRequest(r)
        \/ StatusDetailAcquire(r)
        \/ StatusDetailRead(r)

SpecStatus == InitStatus /\ [][NextStatus]_vars

\* ------------------------------------------------------------ vocabulary
\* the threads serving an orchestrate request
Orchestrating(r) == handler[r] = "orchestrate"
\* the request of thread r created its record
HasRecord(r) == Orchestrating(r) /\ orchestration_id[r] \in DOMAIN store
RecordOf(r) == store[orchestration_id[r]]
\* the handler of thread r has returned its response
Returned(r) == pc[r] = "done"
IsError(resp) == resp.status_code >= 400
\* the number of data entries of r's (validated) request
NumEntries(r) == Len(request[r].json.data)
\* the history of entry i of request r
Hist(r, i) == calls[r][i]
\* some external operation was performed for entry i of request r
Touched(r, i) ==
    Hist(r, i).init + Hist(r, i).poll + Hist(r, i).sleep
        + Hist(r, i).download + Hist(r, i).save > 0
\* thread r is inside a store update that is still to be applied
Updating(r) == pc[r] \in {"update_lock", "update_cs"}

\* -------------------------------------------------------------------- C1
\* C1: whenever post() has returned an error response for a request whose
\* record exists, that record has status FAILED and an error field.
C1_ErrorsAreRecorded ==
    \A r \in Threads :
        (HasRecord(r) /\ Returned(r) /\ IsError(response[r]))
            => (RecordOf(r).status = "FAILED"
                /\ "error" \in DOMAIN RecordOf(r))

\* -------------------------------------------------------------------- C2
\* C2: for every data entry whose EDR retrieval succeeded on poll K (its K-1
\* earlier polls failed), exactly K polls were issued with 1 <= K <=
\* DATA_ADDRESS_MAX_RETRIES, exactly K-1 delays were slept, and when
\* _retrieve_data_address has returned (post() is at the download call) the
\* record's status is DATA_ADDRESS_RETRIEVED. The delays lie one before each
\* poll after the first: a thread about to poll has slept as often as it has
\* polled, a sleeping thread once less.
C2_RetrievalSucceedsOnPollK ==
    \A r \in Threads : \A i \in 1..MaxEntries :
        /\ Hist(r, i).last_poll.ok =>
            LET K == Hist(r, i).poll_failed + 1 IN
            /\ Hist(r, i).poll = K
            /\ K >= 1 /\ K <= max_retries
            /\ Hist(r, i).sleep = K - 1
            /\ (pc[r] = "download_call" /\ entry_idx[r] = i)
                   => RecordOf(r).status = "DATA_ADDRESS_RETRIEVED"
        /\ (pc[r] = "poll_call" /\ entry_idx[r] = i)
               => Hist(r, i).sleep = Hist(r, i).poll
        /\ (pc[r] = "sleep" /\ entry_idx[r] = i)
               => (Hist(r, i).poll >= 1
                   /\ Hist(r, i).sleep = Hist(r, i).poll - 1)

\* a retrieval that succeeded on the last allowed poll, with failures before
C2_Witness ==
    \E r \in Threads :
        /\ pc[r] = "download_call"
        /\ max_retries = 3
        /\ Hist(r, entry_idx[r]).last_poll.ok
        /\ Hist(r, entry_idx[r]).poll = 3
        /\ Hist(r, entry_idx[r]).sleep = 2

\* -------------------------------------------------------------------- C3
\* C3: never more than DATA_ADDRESS_MAX_RETRIES polls are issued for an
\* entry; when all DATA_ADDRESS_MAX_RETRIES (>= 1) polls of an entry have
\* failed, no further poll, sleep or download is issued for the request, the
\* workflow is recording the failure or has returned, and once it has
\* returned the response is an error, the record is FAILED and its error is
\* the detail of the last poll's failure.
C3_ExhaustedRetrieval ==
    \A r \in Threads : \A i \in 1..MaxEntries :
        /\ Hist(r, i).poll <= max_retries
        /\ (max_retries >= 1 /\ Hist(r, i).poll_failed = max_retries) =>
            /\ Hist(r, i).poll = max_retries
            /\ Hist(r, i).sleep = max_retries - 1
            /\ Hist(r, i).download = 0
            /\ \A j \in (i + 1)..MaxEntries : ~Touched(r, j)
            /\ Updating(r) \/ Returned(r)
            /\ Returned(r) =>
                /\ IsError(response[r])
                /\ RecordOf(r).status = "FAILED"
                /\ RecordOf(r).error = Str(Hist(r, i).last_poll.exc)

\* all three polls failed, the last one differently from an HTTP 404, and
\* the workflow has returned
C3_Witness ==
    \E r \in Threads :
        /\ Returned(r) /\ HasRecord(r)
        /\ max_retries = 3
        /\ Hist(r, 1).poll_failed = 3
        /\ Hist(r, 1).last_poll.exc = Timeout
        /\ RecordOf(r).error = Str(Timeout)

\* -------------------------------------------------------------------- C4
\* C4: when the transfer-initiation call of an entry ended with an HTTP
\* error status, no EDR poll, sleep, download or save is issued for that
\* entry nor any call for a later entry, and once post() has returned the
\* record is FAILED with error equal to the connector's response body and
\* the response carries the connector's status code.
C4_InitiationHttpError ==
    \A r \in Threads : \A i \in 1..MaxEntries :
        Hist(r, i).init_outcome.exc.type = "HTTPError" =>
            /\ Hist(r, i).poll = 0 /\ Hist(r, i).sleep = 0
            /\ Hist(r, i).download = 0 /\ Hist(r, i).save = 0
            /\ \A j \in (i + 1)..MaxEntries : ~Touched(r, j)
            /\ Updating(r) \/ Returned(r)
            /\ Returned(r) =>
                /\ RecordOf(r).status = "FAILED"
                /\ RecordOf(r).error = Hist(r, i).init_outcome.exc.body
                /\ response[r].status_code =
                       Hist(r, i).init_outcome.exc.status_code

\* the second entry's initiation was answered 409 and post() has returned
C4_Witness ==
    \E r \in Threads :
        /\ Returned(r) /\ HasRecord(r)
        /\ Hist(r, 2).init_outcome.exc = HTTPError(409, "conflict")
        /\ response[r].status_code = 409

\* -------------------------------------------------------------------- C5
\* C5: once the ASSET_REGISTERED update of a successful initiation (the
\* connector answered identifier t) has been applied, the record's
\* transfer_id field equals t, and it still does when the record is
\* COMPLETED.
C5_TransferIdStored ==
    \A r \in Threads : \A i \in 1..MaxEntries :
        (/\ HasRecord(r)
         /\ Hist(r, i).init_outcome.ok
         /\ Truthy(Hist(r, i).init_outcome.id)
         /\ \/ entry_idx[r] = i /\ pc[r] \in {"poll_call", "sleep",
                                              "download_call", "save_file"}
            \/ i = NumEntries(r) /\ RecordOf(r).status = "COMPLETED")
            => RecordOf(r).transfer_id = Hist(r, i).init_outcome.id

\* the second entry's initiation succeeded and its update has been applied
C5_Reached ==
    \E r \in Threads :
        /\ HasRecord(r) /\ pc[r] = "poll_call" /\ entry_idx[r] = 2
        /\ RecordOf(r).resource_id = EdcTransferId(r, 2)

\* -------------------------------------------------------------------- C6
\* every step of entry i of request r succeeded
EntrySucceeded(r, i) ==
    /\ Hist(r, i).init_outcome.ok /\ Truthy(Hist(r, i).init_outcome.id)
    /\ Hist(r, i).last_poll.ok
    /\ Hist(r, i).download = 1
    /\ Hist(r, i).saved
AllEntriesSucceeded(r) == \A i \in 1..NumEntries(r) : EntrySucceeded(r, i)

\* C6: a record is COMPLETED only if every data entry of its request
\* succeeded, and then its data_responses holds one entry per data entry, in
\* request order (the i-th names the transfer started for the i-th entry);
\* and when post() has returned after every entry succeeded, the record is
\* COMPLETED and the response is a success.
C6_CompletedIffAllSucceeded ==
    \A r \in Threads :
        HasRecord(r) =>
            /\ RecordOf(r).status = "COMPLETED" =>
                /\ AllEntriesSucceeded(r)
                /\ "data_responses" \in DOMAIN RecordOf(r)
                /\ Len(RecordOf(r).data_responses) = NumEntries(r)
                /\ \A i \in 1..NumEntries(r) :
                       RecordOf(r).data_responses[i].transfer_id =
                           Hist(r, i).init_outcome.id
            /\ (Returned(r) /\ AllEntriesSucceeded(r)) =>
                /\ RecordOf(r).status = "COMPLETED"
                /\ ~IsError(response[r])
                /\ response[r].json.response.data_responses =
                       RecordOf(r).data_responses

\* a request with two entries completed
C6_Witness ==
    \E r \in Threads :
        /\ HasRecord(r) /\ Returned(r)
        /\ NumEntries(r) = 2
        /\ RecordOf(r).status = "COMPLETED"
        /\ Len(RecordOf(r).data_responses) = 2

\* -------------------------------------------------------------------- C7
\* C7: an external operation is performed for entry i of a request only if
\* i is a position of the request's data list, the initiation call was made
\* for the entry at position i, and every entry before i has been saved; so
\* no call is issued for an entry after a failed one, and when post() has
\* returned with some entry not saved, its response is an error.
C7_EntriesInOrderAbortOnFailure ==
    \A r \in Threads :
        /\ \A i \in 1..MaxEntries :
            Touched(r, i) =>
                /\ i <= NumEntries(r)
                /\ Hist(r, i).init = 1
                /\ Hist(r, i).entry = request[r].json.data[i].contractId
                /\ \A k \in 1..(i - 1) : Hist(r, k).saved
        /\ (HasRecord(r) /\ Returned(r)
                /\ \E i \in 1..NumEntries(r) : ~Hist(r, i).saved)
            => IsError(response[r])

\* the second entry's download failed after the first entry was saved
C7_Witness ==
    \E r \in Threads :
        /\ Returned(r) /\ HasRecord(r)
        /\ Hist(r, 1).saved
        /\ Hist(r, 2).download = 1 /\ Hist(r, 2).save = 0
        /\ IsError(response[r])

\* -------------------------------------------------------------------- C8
\* position of a status in INITIALIZING -> ASSET_REGISTERED ->
\* DATA_ADDRESS_RETRIEVED -> COMPLETED, FAILED being last
Rank(status) ==
    CASE status = "INITIALIZING" -> 0
      [] status = "ASSET_REGISTERED" -> 1
      [] status = "DATA_ADDRESS_RETRIEVED" -> 2
      [] status = "COMPLETED" -> 3
      [] status = "FAILED" -> 4

\* C8: no step sets a record's status to a state that precedes its current
\* state in the order INITIALIZING, ASSET_REGISTERED, DATA_ADDRESS_RETRIEVED,
\* COMPLETED (FAILED is entered from a non-terminal state only).
C8_StatusOnlyForward ==
    [][\A id \in DOMAIN store :
          /\ Rank(store'[id].status) >= Rank(store[id].status)
          /\ store[id].status = "COMPLETED"
                => store'[id].status = "COMPLETED"]_vars

\* -------------------------------------------------------------------- C9
Terminal(status) == status \in {"COMPLETED", "FAILED"}

\* C9: once a record's status is COMPLETED or FAILED, no step of any
\* handler (orchestrate workflow, status query, data-address lookup) changes
\* that record.
C9_TerminalAbsorbing ==
    [][\A id \in DOMAIN store :
          Terminal(store[id].status) =>
              (id \in DOMAIN store' /\ store'[id] = store[id])]_vars

\* a data-address lookup for the transfer of a record that is FAILED or
\* COMPLETED is scanning the store
C9_Witness ==
    \E r, q \in Threads :
        /\ HasRecord(r) /\ Terminal(RecordOf(r).status)
        /\ "resource_id" \in DOMAIN RecordOf(r)
        /\ pc[q] = "data_address_cs"
        /\ request[q].transfer_id = RecordOf(r).resource_id

\* ------------------------------------------------------------------- C10
\* C10: an orchestrate request without X-Api-Key header is answered with
\* status code 401, one with a key other than the configured one with 403.
C10_AuthStatusCodes ==
    \A r \in Threads :
        (Orchestrating(r) /\ Returned(r)) =>
            /\ ~Truthy(request[r].api_key) => response[r].status_code = 401
            /\ (Truthy(request[r].api_key)
                    /\ request[r].api_key /= EDC_API_KEY)
                => response[r].status_code = 403

\* ------------------------------------------------------------------- C11
\* the orchestrate request of thread r passed the API key check and the
\* schema validation
Accepted(r) ==
    /\ Orchestrating(r)
    /\ Truthy(request[r].api_key) /\ request[r].api_key = EDC_API_KEY
    /\ request[r].parseable
    /\ SchemaValid(request[r].json)
\* no external operation has been performed for request r
NoCallYet(r) == \A i \in 1..MaxEntries : ~Touched(r, i)

\* C11: a record exists only for a request that passed the key check and
\* the schema validation, and exists before the request's first external
\* call; a record enters the store with status INITIALIZING, put there by
\* its own accepted request before any of its calls; a request that fails
\* authorization or validation has no record, makes no external call and
\* none of its steps changes the store.
C11_RecordAfterChecks ==
    /\ [](\A r \in Threads : Orchestrating(r) =>
            /\ HasRecord(r) => Accepted(r)
            /\ ~NoCallYet(r) => HasRecord(r)
            /\ ~Accepted(r) =>
                   (orchestration_id[r] \notin DOMAIN store /\ NoCallYet(r)))
    /\ [][/\ \A id \in DOMAIN store' \ DOMAIN store :
               /\ store'[id].status = "INITIALIZING"
               /\ \E r \in Threads :
                      /\ orchestration_id[r] = id /\ lock = r
                      /\ Accepted(r) /\ NoCallYet(r)
           /\ \A r \in Threads :
               (pc'[r] /= pc[r] /\ handler'[r] = "orchestrate"
                   /\ ~(/\ Truthy(request'[r].api_key)
                        /\ request'[r].api_key = EDC_API_KEY
                        /\ request'[r].parseable
                        /\ SchemaValid(request'[r].json)))
                   => store' = store]_vars

\* one request was refused by the schema while another one's record has
\* just been inserted
C11_Witness ==
    \E r, q \in Threads :
        /\ Orchestrating(r) /\ Returned(r)
        /\ request[r].api_key = EDC_API_KEY /\ request[r].parseable
        /\ ~SchemaValid(request[r].json)
        /\ HasRecord(q) /\ pc[q] = "initiate_call" /\ NoCallYet(q)
        /\ RecordOf(q).status = "INITIALIZING"

\* ------------------------------------------------------------------- C12
\* positions at which a thread waits for an external HTTP call to return or
\* sleeps in the retry delay
ExternalWait ==
    {"initiate_call", "poll_call", "sleep", "download_call",
     "data_address_call", "status_edc_call"}
\* positions inside a `with orchestration_store_lock:` block
CriticalSection ==
    {"create_cs", "update_cs", "status_all_cs", "status_detail_cs",
     "data_address_cs"}

\* C12: a thread that waits on an external HTTP call or sleeps in the retry
\* delay does not own orchestration_store_lock; the owner of the lock is
\* inside the body of one with block (orchestrate workflow, bulk and
\* single-record status query, data-address lookup).
C12_NoLockAcrossCalls ==
    \A r \in Threads :
        /\ pc[r] \in ExternalWait => lock /= r
        /\ lock = r => pc[r] \in CriticalSection

\* a single-record query reads an existing record under the lock while the
\* record's workflow sleeps in the retry delay
C12_Witness ==
    \E r, q \in Threads :
        /\ pc[r] = "sleep" /\ HasRecord(r)
        /\ lock = q /\ pc[q] = "status_detail_cs"
        /\ request[q].orchestration_id = orchestration_id[r]

\* ------------------------------------------------------------------- C13
\* the record of request r holds values of r's own workflow only
OwnContent(r) ==
    LET rec == RecordOf(r) IN
    /\ rec.original_request = request[r].json
    /\ "resource_id" \in DOMAIN rec =>
           \E i \in 1..NumEntries(r) :
               /\ rec.resource_id = Hist(r, i).init_outcome.id
               /\ rec.resource_id = EdcTransferId(r, i)
    /\ "data_responses" \in DOMAIN rec =>
           \A k \in 1..Len(rec.data_responses) :
               rec.data_responses[k].transfer_id = EdcTransferId(r, k)
    /\ "error" \in DOMAIN rec =>
           \E i \in 1..NumEntries(r) :
               \/ rec.error = Hist(r, i).init_outcome.exc.body
               \/ rec.error = Str(Hist(r, i).init_outcome.exc)
               \/ rec.error = Str(Hist(r, i).last_poll.exc)
               \/ rec.error = Str(ValueError(
                      "Invalid EDC response: missing resource ID"))

\* C13: concurrent orchestrate requests have pairwise distinct orchestration
\* identifiers; a record is inserted or changed only by a step of the
\* request it belongs to; and every record holds the request, the connector
\* identifiers, the data responses and the error of its own request only.
C13_RequestsIsolated ==
    /\ [](\A r, q \in Threads :
            (r /= q /\ Orchestrating(r) /\ Orchestrating(q)
                /\ orchestration_id[r] /= 0 /\ orchestration_id[q] /= 0)
                => orchestration_id[r] /= orchestration_id[q])
    /\ [](\A r \in Threads : HasRecord(r) => OwnContent(r))
    /\ [][\A id \in DOMAIN store' :
              (id \notin DOMAIN store \/ store'[id] /= store[id]) =>
                  \E r \in Threads :
                      /\ lock = r /\ Orchestrating(r)
                      /\ orchestration_id[r] = id]_vars

\* two concurrent requests have returned, one completed and one failed
C13_Witness ==
    \E r, q \in Threads :
        /\ r /= q /\ HasRecord(r) /\ HasRecord(q)
        /\ Returned(r) /\ Returned(q)
        /\ RecordOf(r).status = "COMPLETED"
        /\ RecordOf(q).status = "FAILED"

\* ------------------------------------------------------------------- C14
\* C14: for each data entry a workflow issues at most one transfer-
\* initiation call, at most DATA_ADDRESS_MAX_RETRIES EDR polls, at most one
\* download call and at most one file write; and every orchestrate request
\* that has arrived eventually returns a response.
C14_WorkflowTerminates ==
    /\ [](\A r \in Threads : \A i \in 1..MaxEntries :
            /\ Hist(r, i).init <= 1
            /\ Hist(r, i).poll <= max_retries
            /\ Hist(r, i).sleep <= max_retries
            /\ Hist(r, i).download <= 1
            /\ Hist(r, i).save <= 1)
    /\ \A r \in Threads :
           (Orchestrating(r) /\ ~Returned(r))
               ~> (Returned(r) /\ response[r] /= NoResponse)

\* a workflow used every allowed poll for each of two entries and returned
C14_Witness ==
    \E r \in Threads :
        /\ Returned(r) /\ HasRecord(r)
        /\ max_retries = MaxRetriesConfig
        /\ Hist(r, 1).poll = max_retries
        /\ Hist(r, 2).poll = max_retries
        /\ Hist(r, 2).poll_failed = max_retries

\* ------------------------------------------------------------------- C15
\* C15: when the transfer-initiation call of an orchestrate request timed
\* out, the response returned to the caller has status code 504.
C15_TimeoutIs504 ==
    \A r \in Threads : \A i \in 1..MaxEntries :
        (Orchestrating(r) /\ Returned(r)
            /\ Hist(r, i).init_outcome.exc.type = "Timeout")
            => response[r].status_code = 504

\* the initiation call timed out and post() has returned
C15_Reached ==
    \E r \in Threads :
        /\ HasRecord(r) /\ Returned(r)
        /\ Hist(r, 1).init_outcome.exc = Timeout
        /\ RecordOf(r).status = "FAILED"
        /\ response[r].status_code = 500

\* ------------------------------------------------------------------- C16
\* C16: no step of a bulk or single-record status query changes a record
\* or the set of records; and two queries of the same kind with the same
\* arguments, answered with no store mutation in between, return identical
\* responses.
C16_StatusQueriesReadOnly ==
    /\ [][store' = store]_vars
    /\ [](\A r, q \in Threads :
            (Returned(r) /\ Returned(q) /\ handler[r] = handler[q]
                /\ request[r] = request[q])
                => /\ response[r].status_code = response[q].status_code
                   /\ response[r].json = response[q].json)

\* two single-record queries for the same completed record were answered,
\* and so were (in other runs) two bulk queries over two records
C16_Witness ==
    \E r, q \in Threads :
        /\ r /= q /\ Returned(r) /\ Returned(q)
        /\ handler[r] = "status_detail" /\ handler[q] = "status_detail"
        /\ request[r] = request[q]
        /\ request[r].clientIp /= None
        /\ request[r].orchestration_id \in DOMAIN store
        /\ store[request[r].orchestration_id].status = "COMPLETED"
        /\ response[r].status_code = 200

\* ------------------------------------------------------------------- C17
\* C17: when a single-record status query returns, its response is the 404
\* error envelope if the identifier is not in the store, and otherwise
\* carries the status and the timestamps the record has at that moment.
C17_DetailQueryAnswers ==
    [][\A r \in Threads :
          (handler'[r] = "status_detail" /\ pc[r] /= "done"
              /\ pc'[r] = "done") =>
              LET id == request'[r].orchestration_id IN
              IF id \notin DOMAIN store
              THEN /\ response'[r].status_code = 404
                   /\ response'[r].json.status = "ERROR"
              ELSE /\ response'[r].status_code = 200
                   /\ LET detail == response'[r].json.status_code
                                       .orchestration_processes[id] IN
                      /\ detail.process_status = store[id].status
                      /\ detail.created_at = store[id].created_at
                      /\ detail.updated_at = store[id].updated_at]_vars

\* a single-record query without clientIp for a record that exists has been
\* answered with the 500 envelope
C17_Reached ==
    \E r, q \in Threads :
        /\ HasRecord(q)
        /\ handler[r] = "status_detail" /\ Returned(r)
        /\ request[r].orchestration_id = orchestration_id[q]
        /\ request[r].clientIp = None
        /\ response[r].status_code = 500

\* ------------------------------------------------------------------- C18
\* C18: an orchestrate request with a valid key whose body is of the "data"
\* shape (endpoint URL and auth type) has, once answered, a record with
\* status REGISTERED whose endpoint and auth_type are the request's.
C18_DataRequestRegistered ==
    \A r \in Threads :
        (Orchestrating(r) /\ Returned(r)
            /\ request[r].api_key = EDC_API_KEY /\ request[r].parseable
            /\ Get(request[r].json, "type") = "data")
            => /\ orchestration_id[r] \in DOMAIN store
               /\ RecordOf(r).status = "REGISTERED"
               /\ Get(RecordOf(r), "endpoint") = request[r].json.endpoint
               /\ Get(RecordOf(r), "auth_type") = request[r].json.auth_type

\* a "data" request was answered with the validation error envelope
C18_Reached ==
    \E r \in Threads :
        /\ Orchestrating(r) /\ Returned(r)
        /\ request[r].json = DataVariantBody
        /\ response[r].status_code = 400
        /\ orchestration_id[r] \notin DOMAIN store

\* ------------------------------------------------------------------- C19
\* C19: for each data entry, an EDR poll (or the delay before one) happens
\* only after the entry's initiation succeeded and returned an identifier,
\* a download only after a poll succeeded with a data address that carries
\* an authorization credential, and a file write only after the download
\* succeeded; a workflow waiting at one of these steps has the earlier
\* steps of its current entry behind it.
C19_StepsInOrder ==
    \A r \in Threads : \A i \in 1..MaxEntries :
        LET h == Hist(r, i)
            initiated == h.init = 1 /\ h.init_outcome.ok
                             /\ Truthy(h.init_outcome.id)
            retrieved == initiated /\ h.poll >= 1 /\ h.last_poll.ok
                /\ Truthy(Get(h.last_poll.edr, "authorization"))
            fetched == retrieved /\ h.download = 1 /\ h.downloaded
            here == Orchestrating(r) /\ entry_idx[r] = i
        IN  /\ (h.poll > 0 \/ h.sleep > 0) => initiated
            /\ h.download > 0 => retrieved
            /\ h.save > 0 => fetched
            /\ (here /\ pc[r] \in {"poll_call", "sleep"}) => initiated
            /\ (here /\ pc[r] = "download_call") => retrieved
            /\ (here /\ pc[r] = "save_file") => fetched

\* the second entry's file is about to be written after a retried poll
C19_Witness ==
    \E r \in Threads :
        /\ pc[r] = "save_file" /\ entry_idx[r] = 2
        /\ Hist(r, 2).poll = 2 /\ Hist(r, 2).downloaded
        /\ Hist(r, 1).saved

\* ------------------------------------------------------------------- C20
\* C20: when the initiation call of an entry succeeded at HTTP level but
\* the connector's answer carries no '@id', no EDR poll, delay, download or
\* file write happens for that entry nor any call for a later entry, the
\* workflow records the failure and returns, and once it has returned the
\* record is FAILED with an error detail and the response is an error
\* envelope.
C20_MissingIdIsFailure ==
    \A r \in Threads : \A i \in 1..MaxEntries :
        (Hist(r, i).init = 1 /\ Hist(r, i).init_outcome.ok
            /\ ~Truthy(Hist(r, i).init_outcome.id)) =>
            /\ Hist(r, i).poll = 0 /\ Hist(r, i).sleep = 0
            /\ Hist(r, i).download = 0 /\ Hist(r, i).save = 0
            /\ \A j \in (i + 1)..MaxEntries : ~Touched(r, j)
            /\ Updating(r) \/ Returned(r)
            /\ Returned(r) =>
                /\ RecordOf(r).status = "FAILED"
                /\ "error" \in DOMAIN RecordOf(r)
                /\ Truthy(RecordOf(r).error)
                /\ IsError(response[r])
                /\ response[r].json.status = "ERROR"

\* the second entry's initiation was answered without '@id' and the
\* workflow has returned
C20_Witness ==
    \E r \in Threads :
        /\ HasRecord(r) /\ Returned(r)
        /\ Hist(r, 1).saved
        /\ Hist(r, 2).init_outcome.ok
        /\ ~Truthy(Hist(r, 2).init_outcome.id)
        /\ RecordOf(r).status = "FAILED"

\* ------------------------------------------------------------------- C21
\* thread r returns in this step with a response built from the store
ReturnsStoreContent(r) ==
    /\ pc[r] /= "done" /\ pc'[r] = "done"
    /\ \/ handler'[r] = "status_all"
       \/ handler'[r] = "status_detail"
              /\ response'[r].status_code \in {200, 404}
       \/ handler'[r] = "data_address" /\ response'[r].status_code = 200

\* C21: at most one thread is inside a with block of the store lock, and it
\* is the owner of the lock; every step that inserts or changes a record and
\* every step that builds a response from the store (bulk query, single-
\* record query, data-address lookup) is taken by the owner of the lock, and
\* is the whole body of its with block, so no other thread sees a record
\* between the writes of one update.
C21_StoreAccessUnderLock ==
    /\ [](/\ Cardinality({r \in Threads : pc[r] \in CriticalSection}) <= 1
          /\ \A r \in Threads : pc[r] \in CriticalSection <=> lock = r)
    /\ [][/\ store' /= store =>
               (lock \in Threads /\ pc[lock] \in CriticalSection
                   /\ pc'[lock] \notin CriticalSection /\ lock' = 0)
           /\ \A r \in Threads :
                  ReturnsStoreContent(r) => (lock = r /\ lock' = 0)]_vars

\* a workflow applies an update to its record while a single-record query
\* for that record waits for the lock
C21_Witness ==
    \E r, q \in Threads :
        /\ HasRecord(r) /\ pc[r] = "update_cs" /\ lock = r
        /\ pending[r].status = "DATA_ADDRESS_RETRIEVED"
        /\ pc[q] = "status_detail_lock"
        /\ request[q].orchestration_id = orchestration_id[r]

\* ------------------------------------------------------------------- C22
\* C22: the step that runs the body of _update_orchestration_status for an
\* identifier that is not in the store leaves the store as it is; for an
\* identifier that is in the store it keeps the set of identifiers and
\* every other record, and in the record itself sets status, refreshes
\* updated_at, sets the given fields and keeps every other field.
C22_UpdateFrame ==
    [][\A r \in Threads :
          (pc[r] = "update_cs" /\ pc'[r] /= "update_cs") =>
              LET id == orchestration_id[r]
                  u == pending[r]
              IN  IF id \notin DOMAIN store
                  THEN store' = store
                  ELSE /\ DOMAIN store' = DOMAIN store
                       /\ \A o \in DOMAIN store \ {id} :
                              store'[o] = store[o]
                       /\ store'[id].status = u.status
                       /\ store'[id].updated_at > store[id].updated_at
                       /\ DOMAIN store'[id] =
                              DOMAIN store[id] \cup DOMAIN u.kwargs
                       /\ \A k \in DOMAIN u.kwargs :
                              store'[id][k] = u.kwargs[k]
                       /\ \A k \in DOMAIN store[id] \
                                 (DOMAIN u.kwargs \cup
                                     {"status", "updated_at"}) :
                              store'[id][k] = store[id][k]]_vars

\* the update of a request whose body was not JSON (its identifier has no
\* record) has run while another request's record is in the store
C22_Witness ==
    \E r, q \in Threads :
        /\ Orchestrating(r) /\ Returned(r)
        /\ request[r].api_key = EDC_API_KEY /\ ~request[r].parseable
        /\ orchestration_id[r] \notin DOMAIN store
        /\ response[r].status_code = 500
        /\ HasRecord(q)

\* ------------------------------------------------------------------- C23
\* C23: in every store state a record has an error field exactly when its
\* status is FAILED.
C23_ErrorIffFailed ==
    \A id \in DOMAIN store :
        ("error" \in DOMAIN store[id]) <=> (store[id].status = "FAILED")

\* one record failed and carries its error, another one completed
C23_Witness ==
    \E id, o \in DOMAIN store :
        /\ store[id].status = "FAILED" /\ "error" \in DOMAIN store[id]
        /\ store[o].status = "COMPLETED"

\* ------------------------------------------------------------------- C24
\* C24: no step removes an identifier from the store or replaces the record
\* of an identifier by a fresh one (the request it was created for, its
\* creation time stay, its update time never goes back); a step adds at most
\* one identifier, which is the one of the accepted request taking the
\* step; and the records are exactly those of the accepted requests that
\* have passed the insertion.
C24_IdentifiersOnlyGrow ==
    /\ [][/\ DOMAIN store \subseteq DOMAIN store'
           /\ \A id \in DOMAIN store :
                  /\ store'[id].original_request = store[id].original_request
                  /\ store'[id].created_at = store[id].created_at
                  /\ store'[id].updated_at >= store[id].updated_at
           /\ Cardinality(DOMAIN store' \ DOMAIN store) <= 1
           /\ \A new \in DOMAIN store' \ DOMAIN store :
                  \E r \in Threads :
                      /\ pc[r] = "create_cs" /\ Accepted(r)
                      /\ orchestration_id[r] = new]_vars
    /\ [](/\ \A r \in Threads :
                 (Accepted(r) /\ pc[r] \notin {"create_lock", "create_cs"})
                     <=> HasRecord(r)
          /\ Cardinality(DOMAIN store) =
                 Cardinality({r \in Threads : HasRecord(r)}))

\* the second accepted request has added its record to the first one's
C24_Witness ==
    \E r, q \in Threads :
        /\ r /= q /\ HasRecord(r) /\ HasRecord(q)
        /\ pc[q] = "initiate_call" /\ NoCallYet(q)
        /\ Terminal(RecordOf(r).status)
        /\ Cardinality(DOMAIN store) = 2

C26_NoLiveStatusCall ==
    /\ \A id \in DOMAIN store :
        LET response_data == get_detailed_orchestration_data(id, store[id])
        IN  /\ "type" \notin DOMAIN response_data
            /\ store[id].transfer_id = None
            /\ ~WantsLiveStatus(store[id], response_data)
    /\ \A r \in Threads :
        handler[r] = "status_detail" => pc[r] \notin ExternalWait

\* a single-record query was answered for a record whose transfer has been
\* initiated and whose data address has been retrieved
C26_Witness ==
    \E r, q \in Threads :
        /\ HasRecord(r) /\ "resource_id" \in DOMAIN RecordOf(r)
        /\ RecordOf(r).status = "DATA_ADDRESS_RETRIEVED"
        /\ handler[q] = "status_detail" /\ Returned(q)
        /\ request[q].orchestration_id = orchestration_id[r]
        /\ response[q].status_code = 200

\* ------------------------------------------------------------------- C27
\* the fields of the error envelope
ErrorEnvelopeFields == {"message", "status", "status_code", "details"}

\* C27: a record has a data_responses field only when its status is
\* COMPLETED; when post() has returned an error, also after earlier entries
\* were downloaded and saved, the record has no data_responses field and
\* the response is the bare error envelope.
C27_ResponsesOnlyWhenCompleted ==
    /\ \A id \in DOMAIN store :
        "data_responses" \in DOMAIN store[id]
            => store[id].status = "COMPLETED"
    /\ \A r \in Threads :
        (HasRecord(r) /\ Returned(r) /\ IsError(response[r])) =>
            /\ "data_responses" \notin DOMAIN RecordOf(r)
            /\ DOMAIN response[r].json = ErrorEnvelopeFields

\* the first entry was saved, the second entry's retrieval was exhausted
C27_Witness ==
    \E r \in Threads :
        /\ HasRecord(r) /\ Returned(r)
        /\ Hist(r, 1).saved
        /\ max_retries >= 1 /\ Hist(r, 2).poll_failed = max_retries
        /\ RecordOf(r).status = "FAILED"
        /\ "data_responses" \notin DOMAIN RecordOf(r)

\* ------------------------------------------------------------------- C28
\* C28: with DATA_ADDRESS_MAX_RETRIES = 0 no poll and no sleep happens (nor
\* a download or a file write); after a successful initiation the workflow
\* goes on to record the failure and return, and once it has returned the
\* record is FAILED, its error is the text "None" of the absent exception,
\* and the response has status code 500 with that text as details.
C28_ZeroRetries ==
    max_retries = 0 =>
        \A r \in Threads : \A i \in 1..MaxEntries :
            /\ Hist(r, i).poll = 0 /\ Hist(r, i).sleep = 0
            /\ Hist(r, i).download = 0 /\ Hist(r, i).save = 0
            /\ (Hist(r, i).init = 1 /\ Hist(r, i).init_outcome.ok
                    /\ Truthy(Hist(r, i).init_outcome.id)) =>
                /\ Updating(r) \/ Returned(r)
                /\ Returned(r) =>
                    /\ RecordOf(r).status = "FAILED"
                    /\ RecordOf(r).error = "None"
                    /\ RecordOf(r).error = Str(NoException)
                    /\ response[r].status_code = 500
                    /\ response[r].json.details = "None"
                    /\ response[r].json.message =
                           "Data address retrieval failed"

\* with no retries configured, a request whose initiation succeeded has
\* been answered
C28_Witness ==
    \E r \in Threads :
        /\ max_retries = 0
        /\ HasRecord(r) /\ Returned(r)
        /\ Hist(r, 1).init_outcome.ok /\ Truthy(Hist(r, 1).init_outcome.id)
        /\ RecordOf(r).status = "FAILED"
        /\ response[r].status_code = 500

====
